---- MODULE Spec2Model ----
(***************************************************************************)
(* Claude3Evaluator (agenteval/evaluators/claude_3/evaluator.py): the      *)
(* turn loop of evaluate(), the judge calls made through _generate(), the  *)
(* target call, and the structured-output extractor.                       *)
(*                                                                         *)
(* A run is one call of evaluate() on one evaluator object.  Every field   *)
(* of the evaluator and every local of evaluate() is a function of the     *)
(* run; request_body is the one module-level object of the program         *)
(* (model_configs.REQUEST_BODY), which _generate() writes in place.        *)
(***************************************************************************)
EXTENDS FiniteSets, Integers, Sequences, TLC

\* ------------------------------------------------------------------ bounds

\* test.max_turns ranges over 1..MaxTurns
MaxTurns == 2

\* the number of retries of a user-input generation (evaluator.py:235, 243)
MaxRetries == 4

\* the completions given to the extractor on its own have up to MaxLen tokens
MaxLen == 4

Runs == {1, 2}

None == "None"

\* ------------------------------------------------- enumerations (l. 46-63)

ALL_STEPS_ATTEMPTED == "A"
NOT_ALL_STEPS_ATTEMPTED == "B"

EVAL_ALL_EXPECTED_RESULTS_OBSERVED == "A"
EVAL_NOT_ALL_EXPECTED_RESULTS_OBSERVED == "B"

MAX_TURNS_REACHED == "Maximum turns reached."
ALL_EXPECTED_RESULTS_OBSERVED ==
    "All of the expected results can be observed in the conversation."
NOT_ALL_EXPECTED_RESULTS_OBSERVED ==
    "Not all of the expected results can be observed in the conversation."

FallbackUserInput == "Please repeat your response in the same language."

PromptTemplateNames ==
    { "generate_initial_prompt", "generate_user_response",
      "generate_test_status", "generate_evaluation" }

\* ------------------------------------------- completions and the extractor

\* A completion is a sequence of tokens: an opening tag, a closing tag, a
\* run of whitespace, or a run of text without whitespace at either end.
Open(e) == <<"open", e>>
Close(e) == <<"close", e>>
Ws == <<"ws", " ">>
Nl == <<"ws", "\n">>
Text(s) == <<"text", s>>

TokenText(t) ==
    CASE t[1] = "open" -> "<" \o t[2] \o ">"
      [] t[1] = "close" -> "</" \o t[2] \o ">"
      [] OTHER -> t[2]

\* the positions of token t in xml_data after position from
Positions(xml_data, t, from) ==
    { i \in 1..Len(xml_data) : i > from /\ xml_data[i] = t }

Min(S) == CHOOSE i \in S : \A j \in S : i <= j

RECURSIVE LStrip(_)
LStrip(s) == IF s /= <<>> /\ Head(s)[1] = "ws" THEN LStrip(Tail(s)) ELSE s

RECURSIVE RStrip(_)
RStrip(s) ==
    IF s /= <<>> /\ s[Len(s)][1] = "ws"
    THEN RStrip(SubSeq(s, 1, Len(s) - 1))
    ELSE s

RECURSIVE Join(_)
Join(s) == IF s = <<>> THEN "" ELSE TokenText(Head(s)) \o Join(Tail(s))

\* str.strip() of the matched group
Strip(s) == Join(RStrip(LStrip(s)))

\* (.*) in place of (.*?): the group runs to the last closing tag
ExtractOne_greedy(xml_data, e) ==
    LET opens == Positions(xml_data, Open(e), 0)
    IN  IF opens = {} THEN None
        ELSE LET i == Min(opens)
                 closes == Positions(xml_data, Close(e), i)
                 last == CHOOSE j \in closes : \A k \in closes : k <= j
             IN  IF closes = {} THEN None
                 ELSE Strip(SubSeq(xml_data, i + 1, last - 1))

\* re.search(rf"<{e}>(.*?)</{e}>", xml_data, re.DOTALL): the leftmost opening
\* tag that a closing tag follows, and the first closing tag after it
ExtractOne(xml_data, e) ==
    LET opens == Positions(xml_data, Open(e), 0)
    IN  IF opens = {} THEN None
        ELSE LET i == Min(opens)
                 closes == Positions(xml_data, Close(e), i)
             IN  IF closes = {} THEN None
                 ELSE Strip(SubSeq(xml_data, i + 1, Min(closes) - 1))

\* _extract_content_from_xml(xml_data, element_names)
ExtractContentFromXml(xml_data, element_names) ==
    [k \in 1..Len(element_names) |-> ExtractOne(xml_data, element_names[k])]

\* what the judge may answer to each template, and the target to a user turn
OutputXmlElement(name) ==
    CASE name = "generate_initial_prompt" -> "initial_prompt"
      [] name = "generate_user_response" -> "user_response"
      [] name = "generate_test_status" -> "category"
      [] name = "generate_evaluation" -> "category"

Thinking == <<Open("thinking"), Text("why"), Close("thinking")>>

Completions(name) ==
    LET e == OutputXmlElement(name)
    IN  CASE name \in {"generate_initial_prompt", "generate_user_response"} ->
               { <<Text("sorry")>>,
                 <<Open(e), Ws, Close(e)>>,
                 Thinking \o <<Open(e), Ws, Text("u"), Close(e)>> }
          [] name = "generate_test_status" ->
               { <<Text("sorry")>>,
                 Thinking \o <<Open(e), Text("A"), Ws, Close(e)>>,
                 Thinking \o <<Open(e), Text("B"), Close(e)>>,
                 <<Open(e), Text("C"), Close(e)>> }
          [] name = "generate_evaluation" ->
               { <<Text("sorry")>>,
                 Thinking \o <<Open(e), Ws, Text("A"), Close(e)>>,
                 Thinking \o <<Open(e), Text("B"), Close(e)>>,
                 <<Open(e), Text("B"), Ws, Close(e)>>,
                 Thinking \o <<Open(e), Text("C"), Close(e)>> }

TargetResponses == { [response |-> "OK", data |-> "payload"] }

InitialPrompts == { None, "", "Hi" }

Tests(name, turns) ==
    [ name : {name}, max_turns : turns, initial_prompt : InitialPrompts ]

\* ------------------------------------------------------------------- state

VARIABLES
    runs,          \* the runs the scheduler has started
    test,          \* self.test of each run
    conversation,  \* self.conversation of each run
    trace,         \* self.trace of each run
    request_body,  \* model_configs.REQUEST_BODY, one object for the process
    local,         \* the locals of evaluate() and its position
    test_result,   \* the TestResults evaluate() has returned, in order
    calls,         \* history: the judge and target calls made, in order
    iterations,    \* history: the iterations of the turn loop begun
    extract        \* a call of _extract_content_from_xml() on its own

vars == << runs, test, conversation, trace, request_body, local, test_result,
           calls, iterations, extract >>

\* Conversation(): no messages, no turns
NewConversation == [ messages |-> <<>>, turns |-> 0 ]

\* Conversation.add_turn(user_message, agent_response)
add_turn(c, user_message, agent_response) ==
    [ messages |-> c.messages \o << <<"USER", user_message>>,
                                    <<"AGENT", agent_response>> >>,
      turns |-> c.turns + 1 ]

\* Trace.add_step(**kwargs)
add_step(t, step) == Append(t, step)

NoPrompts == [ system |-> <<>>, text |-> <<>> ]

\* the verdict that starts out as passed
NewLocal_passed ==
    [ pc |-> "loop", call |-> None, rendered |-> NoPrompts,
      user_input |-> None, n |-> 0, test_status |-> None,
      eval_category |-> None, passed |-> TRUE, result |-> MAX_TURNS_REACHED,
      reasoning |-> "" ]

\* the locals of evaluate() before its loop (l. 222-224)
NewLocal ==
    [ pc |-> "loop", call |-> None, rendered |-> NoPrompts,
      user_input |-> None, n |-> 0, test_status |-> None, eval_category |-> None,
      passed |-> FALSE, result |-> MAX_TURNS_REACHED, reasoning |-> "" ]

InitRun ==
    /\ conversation = [r \in Runs |-> NewConversation]
    /\ trace = [r \in Runs |-> <<>>]
    /\ request_body = NoPrompts
    /\ local = [r \in Runs |-> NewLocal]
    /\ test_result = [r \in Runs |-> <<>>]
    /\ calls = [r \in Runs |-> <<>>]
    /\ iterations = [r \in Runs |-> 0]

\* no call of the extractor but those of the runs
NoExtract ==
    [ pc |-> "idle", xml_data |-> <<>>, element_names |-> <<>>,
      content |-> <<>> ]

\* one Test is run
Init ==
    /\ extract = NoExtract
    /\ runs = {1}
    /\ test \in [Runs -> Tests("t1", 1..MaxTurns) \cup Tests("t2", {1})]
    /\ test[1].name = "t1"
    /\ test[2] = [name |-> "t2", max_turns |-> 1, initial_prompt |-> None]
    /\ InitRun

\* two Tests of a suite, each with a fixed initial prompt and one turn, are
\* run in parallel, one evaluator object each
ParallelInit ==
    /\ extract = NoExtract
    /\ runs = {1, 2}
    /\ test = [r \in Runs |->
                 [ name |-> IF r = 1 THEN "t1" ELSE "t2", max_turns |-> 1,
                   initial_prompt |-> "Hi" ]]
    /\ InitRun

\* ------------------------------------------------------- evaluate(), l. 216

\* `if self.test.initial_prompt:` (l. 229): None and "" are false
Truthy(x) == x /= None /\ x /= ""

\* the loop condition off by one, and the loop that only a status ends
LoopCondition_le(turns, max_turns) == turns <= max_turns

LoopCondition_true(turns, max_turns) == TRUE

\* `while self.conversation.turns < self.test.max_turns` (l. 226)
LoopCondition(turns, max_turns) == turns < max_turns

\* one retry too many
RetryCondition_le(user_input, n) == user_input = None /\ n <= MaxRetries

\* `while user_input is None and n < 4` (l. 235, 243)
RetryCondition(user_input, n) == user_input = None /\ n < MaxRetries

\* every status but "not all steps attempted" taken as completion
StatusIsAllStepsAttempted_notB(test_status) ==
    test_status /= NOT_ALL_STEPS_ATTEMPTED

\* `if test_status == TestStatusCategories.ALL_STEPS_ATTEMPTED` (l. 260)
StatusIsAllStepsAttempted(test_status) == test_status = ALL_STEPS_ATTEMPTED

\* only the success category passes
Verdict_strict(eval_category) ==
    IF eval_category = EVAL_ALL_EXPECTED_RESULTS_OBSERVED
    THEN [ result |-> ALL_EXPECTED_RESULTS_OBSERVED, passed |-> TRUE ]
    ELSE [ result |-> NOT_ALL_EXPECTED_RESULTS_OBSERVED, passed |-> FALSE ]

\* l. 263-270: the verdict for an evaluation category
Verdict(eval_category) ==
    IF eval_category = EVAL_NOT_ALL_EXPECTED_RESULTS_OBSERVED
    THEN [ result |-> NOT_ALL_EXPECTED_RESULTS_OBSERVED, passed |-> FALSE ]
    ELSE [ result |-> ALL_EXPECTED_RESULTS_OBSERVED, passed |-> TRUE ]

\* no sentinel
ChosenUserInput_keep(user_input) == user_input

\* l. 249-251: the sentinel replaces a user input that is still None
ChosenUserInput(user_input) ==
    IF user_input = None THEN FallbackUserInput ELSE user_input

\* the head of the loop, up to the first call of the iteration (l. 226-241);
\* n = 0 (l. 234, 242) follows the first call, and nothing reads n in between
LoopHead(r) ==
    /\ local[r].pc = "loop"
    /\ LET l == local[r]
           c == conversation[r]
       IN  local' = [local EXCEPT ![r] =
             IF ~LoopCondition(c.turns, test[r].max_turns)
             THEN [l EXCEPT !.pc = "return"]
             ELSE IF c.turns = 0
             THEN IF Truthy(test[r].initial_prompt)
                  THEN [l EXCEPT !.user_input = test[r].initial_prompt,
                                 !.pc = "add_turn"]
                  ELSE [l EXCEPT !.call = "generate_initial_prompt",
                                 !.n = 0, !.pc = "set_system"]
             ELSE [l EXCEPT !.call = "generate_user_response",
                            !.n = 0, !.pc = "set_system"]]
    /\ iterations' = [iterations EXCEPT ![r] =
          IF LoopCondition(conversation[r].turns, test[r].max_turns)
          THEN @ + 1 ELSE @]
    /\ UNCHANGED << extract, runs, test, conversation, trace, request_body,
                    test_result, calls >>

\* the templates of a call rendered (l. 124-129, 146-151, 166-172, 189-194):
\* the system template takes no argument, the prompt template the test's
\* steps or expected results and, but for the initial prompt, the conversation
Render(name, t, c) ==
    [ system |-> <<"system", name>>,
      text |-> << name, t.name,
                  IF name = "generate_initial_prompt" THEN <<>>
                  ELSE c.messages >> ]

\* _generate_*() renders, _generate() writes the system prompt (l. 105-106)
SetSystem(r) ==
    /\ local[r].pc = "set_system"
    /\ LET p == Render(local[r].call, test[r], conversation[r])
       IN  /\ local' = [local EXCEPT ![r].rendered = p, ![r].pc = "set_text"]
           /\ request_body' = [request_body EXCEPT !.system = p.system]
    /\ UNCHANGED << extract, runs, test, conversation, trace, test_result, calls,
                    iterations >>

\* _generate() writes the user prompt (l. 107)
SetText(r) ==
    /\ local[r].pc = "set_text"
    /\ request_body' = [request_body EXCEPT !.text = local[r].rendered.text]
    /\ local' = [local EXCEPT ![r].pc = "invoke"]
    /\ UNCHANGED << extract, runs, test, conversation, trace, test_result, calls,
                    iterations >>

\* evaluate() once a _generate_*() call has returned (output, reasoning):
\* l. 233-238, 241-246
AfterUserInput(l, output) ==
    IF RetryCondition(output, l.n)
    THEN [l EXCEPT !.user_input = output, !.n = l.n + 1, !.pc = "set_system"]
    ELSE [l EXCEPT !.user_input = output, !.pc = "add_turn"]

\* a status the enumeration does not know taken as completion
AfterTestStatus_unknown(l, output) ==
    IF output \notin {ALL_STEPS_ATTEMPTED, NOT_ALL_STEPS_ATTEMPTED, None}
       \/ StatusIsAllStepsAttempted(output)
    THEN [l EXCEPT !.test_status = output, !.call = "generate_evaluation",
                   !.pc = "set_system"]
    ELSE [l EXCEPT !.test_status = output, !.pc = "loop"]

\* l. 259-260
AfterTestStatus(l, output) ==
    IF StatusIsAllStepsAttempted(output)
    THEN [l EXCEPT !.test_status = output, !.call = "generate_evaluation",
                   !.pc = "set_system"]
    ELSE [l EXCEPT !.test_status = output, !.pc = "loop"]

\* the evaluation that does not leave the loop
AfterEvaluation_noBreak(l, output, thinking) ==
    [l EXCEPT !.eval_category = output, !.reasoning = thinking,
              !.result = Verdict(output).result,
              !.passed = IF Verdict(output).passed THEN TRUE ELSE l.passed,
              !.pc = "loop"]

\* the result label set without the verdict
AfterEvaluation_noPassed(l, output, thinking) ==
    [l EXCEPT !.eval_category = output, !.reasoning = thinking,
              !.result = Verdict(output).result,
              !.pc = "return"]

\* l. 262-272
AfterEvaluation(l, output, thinking) ==
    [l EXCEPT !.eval_category = output, !.reasoning = thinking,
              !.result = Verdict(output).result,
              !.passed = IF Verdict(output).passed THEN TRUE ELSE l.passed,
              !.pc = "return"]

\* the return of _generate_*() to its call site in evaluate()
AfterGenerate(l, output, thinking) ==
    CASE l.call \in {"generate_initial_prompt", "generate_user_response"} ->
           AfterUserInput(l, output)
      [] l.call = "generate_test_status" -> AfterTestStatus(l, output)
      [] l.call = "generate_evaluation" -> AfterEvaluation(l, output, thinking)

\* the record of one call in the history
Call(kind, turn, sent, rendered, ok, output) ==
    [ kind |-> kind, turn |-> turn, sent |-> sent, rendered |-> rendered,
      ok |-> ok, output |-> output ]

\* no trace step for a completion without the output element
InvokeModel_skipNull(r) ==
    /\ local[r].pc = "invoke"
    /\ \E completion \in Completions(local[r].call) :
         LET l == local[r]
             x == ExtractContentFromXml(
                      completion, <<OutputXmlElement(l.call), "thinking">>)
         IN  /\ trace' = [trace EXCEPT ![r] =
                   IF x[1] = None THEN @
                   ELSE add_step(@,
                   [ step |-> l.call, system_prompt |-> l.rendered.system,
                     prompt |-> l.rendered.text, output |-> x[1],
                     reasoning |-> x[2] ])]
             /\ calls' = [calls EXCEPT ![r] = Append(@,
                   Call(l.call, conversation[r].turns, request_body,
                        l.rendered, TRUE, x[1]))]
             /\ local' = [local EXCEPT ![r] = AfterGenerate(l, x[1], x[2])]
    /\ UNCHANGED << extract, runs, test, conversation, request_body, test_result,
                    iterations >>

\* invoke_model() returns a completion; _generate() extracts (l. 109-121),
\* _generate_*() adds the trace step and returns to evaluate()
InvokeModel(r) ==
    /\ local[r].pc = "invoke"
    /\ \E completion \in Completions(local[r].call) :
         LET l == local[r]
             x == ExtractContentFromXml(
                      completion, <<OutputXmlElement(l.call), "thinking">>)
         IN  /\ trace' = [trace EXCEPT ![r] = add_step(@,
                   [ step |-> l.call, system_prompt |-> l.rendered.system,
                     prompt |-> l.rendered.text, output |-> x[1],
                     reasoning |-> x[2] ])]
             /\ calls' = [calls EXCEPT ![r] = Append(@,
                   Call(l.call, conversation[r].turns, request_body,
                        l.rendered, TRUE, x[1]))]
             /\ local' = [local EXCEPT ![r] = AfterGenerate(l, x[1], x[2])]
    /\ UNCHANGED << extract, runs, test, conversation, request_body, test_result,
                    iterations >>

\* a call that raised taken for a completion without tags
InvokeModelFails_asNull(r) ==
    /\ local[r].pc = "invoke"
    /\ calls' = [calls EXCEPT ![r] = Append(@,
          Call(local[r].call, conversation[r].turns, request_body,
               local[r].rendered, FALSE, None))]
    /\ local' = [local EXCEPT ![r] = AfterGenerate(local[r], None, None)]
    /\ UNCHANGED << extract, runs, test, conversation, trace, request_body,
                    test_result, iterations >>

\* invoke_model() raises: nothing catches it, evaluate() is left (l. 109)
InvokeModelFails(r) ==
    /\ local[r].pc = "invoke"
    /\ calls' = [calls EXCEPT ![r] = Append(@,
          Call(local[r].call, conversation[r].turns, request_body,
               local[r].rendered, FALSE, None))]
    /\ local' = [local EXCEPT ![r].pc = "error"]
    /\ UNCHANGED << extract, runs, test, conversation, trace, request_body,
                    test_result, iterations >>

\* the turn added with its two texts exchanged
InvokeTarget_swapped(r) ==
    /\ local[r].pc = "add_turn"
    /\ \E target_response \in TargetResponses :
         LET user_input == ChosenUserInput(local[r].user_input)
             sent == [ system |-> <<>>, text |-> <<user_input>> ]
         IN  /\ trace' = [trace EXCEPT ![r] = add_step(@,
                   [ step |-> "target", system_prompt |-> <<>>,
                     prompt |-> <<>>, output |-> target_response.data,
                     reasoning |-> None ])]
             /\ conversation' = [conversation EXCEPT ![r] =
                   add_turn(@, target_response.response, user_input)]
             /\ calls' = [calls EXCEPT ![r] = Append(@,
                   Call("target", conversation[r].turns, sent, sent, TRUE,
                        target_response.response))]
             /\ local' = [local EXCEPT ![r].user_input = user_input,
                                       ![r].call = "generate_test_status",
                                       ![r].pc = "set_system"]
    /\ UNCHANGED << extract, runs, test, request_body, test_result, iterations >>

\* no status asked for after the last permitted turn
InvokeTarget_noLastStatus(r) ==
    /\ local[r].pc = "add_turn"
    /\ \E target_response \in TargetResponses :
         LET user_input == ChosenUserInput(local[r].user_input)
             sent == [ system |-> <<>>, text |-> <<user_input>> ]
         IN  /\ trace' = [trace EXCEPT ![r] = add_step(@,
                   [ step |-> "target", system_prompt |-> <<>>,
                     prompt |-> <<>>, output |-> target_response.data,
                     reasoning |-> None ])]
             /\ conversation' = [conversation EXCEPT ![r] =
                   add_turn(@, user_input, target_response.response)]
             /\ calls' = [calls EXCEPT ![r] = Append(@,
                   Call("target", conversation[r].turns, sent, sent, TRUE,
                        target_response.response))]
             /\ local' = [local EXCEPT ![r].user_input = user_input,
                                       ![r].call = "generate_test_status",
                                       ![r].pc =
                   IF conversation[r].turns + 1 < test[r].max_turns
                   THEN "set_system" ELSE "loop"]
    /\ UNCHANGED << extract, runs, test, request_body, test_result, iterations >>

\* l. 249-253 and _invoke_target(): the sentinel, the target call, its trace
\* step, the turn added; then the test status is asked for (l. 259)
InvokeTarget(r) ==
    /\ local[r].pc = "add_turn"
    /\ \E target_response \in TargetResponses :
         LET user_input == ChosenUserInput(local[r].user_input)
             sent == [ system |-> <<>>, text |-> <<user_input>> ]
         IN  /\ trace' = [trace EXCEPT ![r] = add_step(@,
                   [ step |-> "target", system_prompt |-> <<>>,
                     prompt |-> <<>>, output |-> target_response.data,
                     reasoning |-> None ])]
             /\ conversation' = [conversation EXCEPT ![r] =
                   add_turn(@, user_input, target_response.response)]
             /\ calls' = [calls EXCEPT ![r] = Append(@,
                   Call("target", conversation[r].turns, sent, sent, TRUE,
                        target_response.response))]
             /\ local' = [local EXCEPT ![r].user_input = user_input,
                                       ![r].call = "generate_test_status",
                                       ![r].pc = "set_system"]
    /\ UNCHANGED << extract, runs, test, request_body, test_result, iterations >>

\* the user text added to the conversation before the target is called
InvokeTargetFails_appended(r) ==
    /\ local[r].pc = "add_turn"
    /\ LET user_input == ChosenUserInput(local[r].user_input)
           sent == [ system |-> <<>>, text |-> <<user_input>> ]
       IN  /\ calls' = [calls EXCEPT ![r] = Append(@,
                 Call("target", conversation[r].turns, sent, sent, FALSE,
                      None))]
           /\ conversation' = [conversation EXCEPT ![r] =
                 add_turn(@, user_input, None)]
           /\ local' = [local EXCEPT ![r].user_input = user_input,
                                     ![r].pc = "error"]
    /\ UNCHANGED << extract, runs, test, trace, request_body, test_result,
                    iterations >>

\* self.target.invoke() raises (l. 211): no trace step, no turn
InvokeTargetFails(r) ==
    /\ local[r].pc = "add_turn"
    /\ LET user_input == ChosenUserInput(local[r].user_input)
           sent == [ system |-> <<>>, text |-> <<user_input>> ]
       IN  /\ calls' = [calls EXCEPT ![r] = Append(@,
                 Call("target", conversation[r].turns, sent, sent, FALSE,
                      None))]
           /\ local' = [local EXCEPT ![r].user_input = user_input,
                                     ![r].pc = "error"]
    /\ UNCHANGED << extract, runs, test, conversation, trace, request_body,
                    test_result, iterations >>

\* l. 274-280
ReturnResult(r) ==
    /\ local[r].pc = "return"
    /\ test_result' = [test_result EXCEPT ![r] = Append(@,
          [ test_name |-> test[r].name, passed |-> local[r].passed,
            result |-> local[r].result, reasoning |-> local[r].reasoning,
            conversation |-> conversation[r] ])]
    /\ local' = [local EXCEPT ![r].pc = "done"]
    /\ UNCHANGED << extract, runs, test, conversation, trace, request_body, calls,
                    iterations >>

Next ==
    \/ \E r \in runs : LoopHead(r)
    \/ \E r \in runs : SetSystem(r)
    \/ \E r \in runs : SetText(r)
    \/ \E r \in runs : InvokeModel(r)
    \/ \E r \in runs : InvokeModelFails(r)
    \/ \E r \in runs : InvokeTarget(r)
    \/ \E r \in runs : InvokeTargetFails(r)
    \/ \E r \in runs : ReturnResult(r)

\* one run of evaluate()
Spec == Init /\ [][Next]_vars

\* one run of evaluate(), which is never suspended for ever
FairSpec == Init /\ [][Next]_vars /\ WF_vars(Next)

\* two runs of evaluate() on two threads of one process
ParallelSpec == ParallelInit /\ [][Next]_vars

\* ------------------------------------------------ the extractor on its own

\* what a completion text is made of: the tags of the two requested names, a
\* tag that differs from one of them in case only, text, blanks and newlines
Alphabet ==
    { Open("category"), Close("category"), Open("thinking"),
      Close("thinking"), Open("Category"), Text("A"), Ws, Nl }

\* any completion text of up to MaxLen tokens
XmlInputs == UNION { [1..k -> Alphabet] : k \in 0..MaxLen }

\* the element_names of the call sites (l. 114-116), and their reverse
ElementNameLists ==
    { <<"category", "thinking">>, <<"thinking", "category">>,
      <<"category">> }

\* _extract_content_from_xml() is called with any text and any names
ExtractInit ==
    /\ runs = {}
    /\ test = [r \in Runs |->
                 [name |-> "t2", max_turns |-> 1, initial_prompt |-> None]]
    /\ InitRun
    /\ extract \in [ pc : {"call"}, xml_data : XmlInputs,
                      element_names : ElementNameLists, content : {<<>>} ]

\* _extract_content_from_xml() runs to its return (l. 90-97)
ExtractContent ==
    /\ extract.pc = "call"
    /\ extract' = [extract EXCEPT
                     !.content = ExtractContentFromXml(extract.xml_data,
                                                       extract.element_names),
                     !.pc = "returned"]
    /\ UNCHANGED << runs, test, conversation, trace, request_body, local,
                    test_result, calls, iterations >>

ExtractNext == ExtractContent

ExtractSpec == ExtractInit /\ [][ExtractNext]_vars

\* -------------------------------------------------------------- properties

GenerateNames == { "generate_initial_prompt", "generate_user_response" }

\* the positions in the history of run r of the calls of these kinds made
\* while conversation.turns was t
CallsAt(r, kinds, t) ==
    { i \in 1..Len(calls[r]) :
        calls[r][i].kind \in kinds /\ calls[r][i].turn = t }

CallsOf(r, kinds) ==
    { i \in 1..Len(calls[r]) : calls[r][i].kind \in kinds }

Returned(r) == test_result[r] /= <<>>

\* C1: conversation.turns never exceeds test.max_turns during evaluate(), nor
\* in the conversation of the TestResult it returns.
C1_TurnsWithinMaxTurns ==
    \A r \in runs :
        /\ conversation[r].turns <= test[r].max_turns
        /\ \A k \in 1..Len(test_result[r]) :
             test_result[r][k].conversation.turns <= test[r].max_turns

\* a run returned with every permitted turn used
C1_Witness ==
    /\ Returned(1)
    /\ test[1].max_turns = MaxTurns
    /\ test_result[1][1].conversation.turns = MaxTurns

Finished(r) == local[r].pc \in {"done", "error"}

\* the most steps one iteration of the loop takes: the loop head, five
\* generations, the target call, the status call and the evaluation call,
\* a judge call being three steps
IterationSteps == 3 * (MaxRetries + 1) + 8

\* the steps a judge call has yet to take
CallSteps(pc) ==
    CASE pc = "set_system" -> 3 [] pc = "set_text" -> 2 [] pc = "invoke" -> 1

\* a bound on the steps run r has yet to take
Rank(r) ==
    LET l == local[r]
        left == test[r].max_turns - conversation[r].turns
    IN  CASE l.pc \in {"done", "error"} -> 0
          [] l.pc = "return" -> 1
          [] l.pc = "loop" -> left * IterationSteps + 2
          [] l.pc = "add_turn" -> (left - 1) * IterationSteps + 8
          [] l.call = "generate_evaluation" -> 1 + CallSteps(l.pc)
          [] l.call = "generate_test_status" ->
               left * IterationSteps + 4 + CallSteps(l.pc)
          [] OTHER ->
               (left - 1) * IterationSteps + 8 + 3 * (MaxRetries - l.n)
                   + CallSteps(l.pc)

\* C2: the loop begins at most max_turns iterations and each adds exactly one
\* turn; whatever the judge returns, every step of a run lowers a bound on
\* the steps left, which is never negative, and a run that is neither done
\* nor left by a call that raised can take a step: so a run whose calls all
\* return ends, and it ends with exactly one TestResult.
C2_Terminates ==
    /\ [](\A r \in runs :
             /\ iterations[r] <= test[r].max_turns
             /\ conversation[r].turns <= iterations[r]
             /\ iterations[r] <= conversation[r].turns + 1
             /\ local[r].pc = "loop" => iterations[r] = conversation[r].turns
             /\ local[r].pc = "return" => conversation[r].turns = iterations[r]
             /\ Len(test_result[r]) = IF local[r].pc = "done" THEN 1 ELSE 0
             /\ local[r].pc = "error" =>
                   calls[r] /= <<>> /\ ~calls[r][Len(calls[r])].ok
             /\ Rank(r) >= 0
             /\ Rank(r) <= test[r].max_turns * IterationSteps + 2)
    /\ []((\A r \in runs : Finished(r)) \/ ENABLED Next)
    /\ [][\A r \in runs :
             IF local[r]' = local[r]
             THEN conversation[r]' = conversation[r]
             ELSE /\ Rank(r)' < Rank(r)
                  /\ conversation[r].turns' =
                       IF local[r].pc = "add_turn" /\ local[r].pc' /= "error"
                       THEN conversation[r].turns + 1
                       ELSE conversation[r].turns]_vars

\* a run returned after MaxTurns iterations in which the judge never gave a
\* user input nor a recognized status
C2_Witness ==
    /\ local[1].pc = "done"
    /\ iterations[1] = MaxTurns
    /\ Len(test_result[1]) = 1
    /\ \A i \in CallsOf(1, PromptTemplateNames) : calls[1][i].output = None

Max(S) == CHOOSE i \in S : \A j \in S : j <= i

\* C3: a fixed initial prompt that is not null is the user text of the first
\* pair, and no user input is generated before the first target call.
C3_FixedInitialPromptUsed ==
    \A r \in runs :
        test[r].initial_prompt /= None =>
            /\ CallsAt(r, GenerateNames, 0) = {}
            /\ conversation[r].turns >= 1 =>
                 conversation[r].messages[1]
                     = <<"USER", test[r].initial_prompt>>

\* the generation calls of turn t all returned, and all returned null
AllNull(r, t) ==
    LET G == CallsAt(r, GenerateNames, t)
    IN  /\ Cardinality(G) = MaxRetries + 1
        /\ \A i \in G : calls[r][i].ok /\ calls[r][i].output = None

\* C4: after five null generations in a turn the sentinel is the user text
\* sent to the target and appended, the run goes on to the target call, and
\* the turn counts for exactly one.
C4_FallbackAfterFiveNulls ==
    \A r \in runs : \A t \in 0..MaxTurns :
        LET T == CallsAt(r, {"target"}, t)
            c == conversation[r]
        IN  AllNull(r, t) =>
              /\ T = {} => local[r].pc = "add_turn" /\ c.turns = t
              /\ Cardinality(T) <= 1
              /\ \A j \in T :
                   /\ calls[r][j].sent.text = <<FallbackUserInput>>
                   /\ calls[r][j].ok =>
                        /\ c.turns >= t + 1
                        /\ c.messages[2 * t + 1] = <<"USER", FallbackUserInput>>
                        /\ c.messages[2 * t + 2]
                             = <<"AGENT", calls[r][j].output>>
                        /\ j < Len(calls[r]) => calls[r][j + 1].turn = t + 1
                   /\ ~calls[r][j].ok => c.turns = t

\* the second turn fell back to the sentinel and the run went on
C4_Witness ==
    /\ AllNull(1, 1)
    /\ conversation[1].turns = 2
    /\ conversation[1].messages[3] = <<"USER", FallbackUserInput>>
    /\ local[1].pc = "done"

\* C5: the generation calls of a turn are consecutive calls of one generator,
\* at most five; each but the last returned null; the target call follows the
\* last one, with its output when that is not null, and after a null only
\* when it was the fifth; a turn without generation is the first turn of a
\* Test with a fixed initial prompt.
C5_BoundedGeneration ==
    \A r \in runs : \A t \in 0..MaxTurns :
        LET G == CallsAt(r, GenerateNames, t)
            T == CallsAt(r, {"target"}, t)
        IN  /\ Cardinality(G) <= MaxRetries + 1
            /\ \A i \in G : \A j \in G :
                 /\ calls[r][i].kind = calls[r][j].kind
                 /\ i < j => i + 1 \in G
                 /\ i < j => calls[r][i].ok /\ calls[r][i].output = None
            /\ \A j \in T :
                 IF G = {}
                 THEN /\ t = 0
                      /\ calls[r][j].sent.text = <<test[r].initial_prompt>>
                 ELSE LET last == calls[r][Max(G)]
                      IN  /\ j = Max(G) + 1
                          /\ last.ok
                          /\ last.output /= None =>
                               calls[r][j].sent.text = <<last.output>>
                          /\ last.output = None =>
                               Cardinality(G) = MaxRetries + 1

\* the third attempt of the second turn gave the user input sent to the target
C5_Witness ==
    LET G == CallsAt(1, GenerateNames, 1)
        T == CallsAt(1, {"target"}, 1)
    IN  /\ Cardinality(G) = 3
        /\ calls[1][Max(G)].output = "u"
        /\ T /= {}
        /\ \A j \in T : calls[1][j].ok /\ calls[1][j].sent.text = <<"u">>

\* C6: at most one evaluation call is made, right after a test-status call
\* of the same turn that returned "all steps attempted"; no other status is
\* followed by one.
C6_EvaluationOnlyAfterAllStepsAttempted ==
    \A r \in runs :
        LET E == CallsOf(r, {"generate_evaluation"})
        IN  /\ Cardinality(E) <= 1
            /\ \A i \in E :
                 /\ i > 1
                 /\ calls[r][i - 1].kind = "generate_test_status"
                 /\ calls[r][i - 1].ok
                 /\ calls[r][i - 1].output = ALL_STEPS_ATTEMPTED
                 /\ calls[r][i - 1].turn = calls[r][i].turn
            /\ \A i \in CallsOf(r, {"generate_test_status"}) :
                 (i < Len(calls[r])
                    /\ calls[r][i].output /= ALL_STEPS_ATTEMPTED)
                 => calls[r][i + 1].kind /= "generate_evaluation"

\* statuses null, "B" or unrecognized in the first turn, "A" in the second,
\* and then the one evaluation call
C6_Witness ==
    LET E == CallsOf(1, {"generate_evaluation"})
        S == CallsAt(1, {"generate_test_status"}, 1)
    IN  /\ Cardinality(E) = 1
        /\ \A i \in E : calls[1][i].turn = 2 /\ calls[1][i].ok
        /\ \E i \in S : calls[1][i].output = "C"
        /\ local[1].pc = "done"

\* C7: when evaluation was reached, the TestResult fails with the
\* NOT_ALL_EXPECTED_RESULTS_OBSERVED label if the category was "B", and
\* passes with the ALL_EXPECTED_RESULTS_OBSERVED label for any other category.
C7_VerdictFollowsEvaluation ==
    \A r \in runs :
        \A k \in 1..Len(test_result[r]) :
            \A i \in CallsOf(r, {"generate_evaluation"}) :
                LET tr == test_result[r][k]
                IN  IF calls[r][i].output
                         = EVAL_NOT_ALL_EXPECTED_RESULTS_OBSERVED
                    THEN /\ tr.passed = FALSE
                         /\ tr.result = NOT_ALL_EXPECTED_RESULTS_OBSERVED
                    ELSE /\ tr.passed = TRUE
                         /\ tr.result = ALL_EXPECTED_RESULTS_OBSERVED

\* a run returned passed after an evaluation without a category
C7_Witness ==
    /\ Returned(1)
    /\ test_result[1][1].passed
    /\ \E i \in CallsOf(1, {"generate_evaluation"}) :
         calls[1][i].ok /\ calls[1][i].output = None

NoAllStepsAttempted(r) ==
    \A i \in CallsOf(r, {"generate_test_status"}) :
        calls[r][i].output /= ALL_STEPS_ATTEMPTED

\* C8: a run that returns without a status "all steps attempted" has used
\* max_turns turns and made no evaluation call; its TestResult is not passed,
\* has the empty reasoning and the "Maximum turns reached." label.
C8_MaxTurnsReached ==
    \A r \in runs :
        \A k \in 1..Len(test_result[r]) :
            NoAllStepsAttempted(r) =>
                /\ test_result[r][k].passed = FALSE
                /\ test_result[r][k].reasoning = ""
                /\ test_result[r][k].result = MAX_TURNS_REACHED
                /\ test_result[r][k].conversation.turns = test[r].max_turns
                /\ CallsOf(r, {"generate_evaluation"}) = {}

\* a run returned after MaxTurns turns whose statuses were all "B"
C8_Witness ==
    /\ Returned(1)
    /\ conversation[1].turns = MaxTurns
    /\ Cardinality(CallsOf(1, {"generate_test_status"})) = MaxTurns
    /\ \A i \in CallsOf(1, {"generate_test_status"}) :
         calls[1][i].output = NOT_ALL_STEPS_ATTEMPTED

Recognized == { "A", "B" }

\* a status outside the enumeration is followed by no evaluation, and no run
\* is left in error but by a call that failed
UnrecognizedStatusContinues(r) ==
    /\ \A i \in CallsOf(r, {"generate_test_status"}) :
         (i < Len(calls[r]) /\ calls[r][i].output \notin Recognized)
         => calls[r][i + 1].kind /= "generate_evaluation"
    /\ local[r].pc = "error" => ~calls[r][Len(calls[r])].ok

\* C9 as stated: a label outside the enumeration is never an error, such a
\* status never triggers evaluation, and such an evaluation category never
\* gives a TestResult with passed = TRUE.
C9_UnrecognizedIsNotMet ==
    \A r \in runs :
        /\ UnrecognizedStatusContinues(r)
        /\ \A k \in 1..Len(test_result[r]) :
             \A i \in CallsOf(r, {"generate_evaluation"}) :
                 calls[r][i].output \notin Recognized
                 => test_result[r][k].passed = FALSE

\* C9 as amended: a label outside the enumeration is never an error, such a
\* status never triggers evaluation, and such an evaluation category gives a
\* TestResult with passed = TRUE and the ALL_EXPECTED_RESULTS_OBSERVED label.
C9_UnrecognizedEvaluationPasses ==
    \A r \in runs :
        /\ UnrecognizedStatusContinues(r)
        /\ \A i \in CallsOf(r, {"generate_evaluation"}) :
             (calls[r][i].ok /\ calls[r][i].output \notin Recognized)
             => /\ local[r].pc \in {"return", "done"}
                /\ local[r].passed = TRUE
                /\ \A k \in 1..Len(test_result[r]) :
                     /\ test_result[r][k].passed = TRUE
                     /\ test_result[r][k].result
                          = ALL_EXPECTED_RESULTS_OBSERVED

\* an unrecognized status, then "A", then an unrecognized evaluation category
C9_Witness ==
    /\ Returned(1)
    /\ \E i \in CallsOf(1, {"generate_test_status"}) :
         calls[1][i].output = "C"
    /\ \E i \in CallsOf(1, {"generate_evaluation"}) :
         calls[1][i].output = "C"
    /\ test_result[1][1].passed

\* C10: every judge call of a run is sent with the system prompt and the user
\* prompt that run rendered for it.
C10_OwnPromptsSent ==
    \A r \in runs :
        \A i \in CallsOf(r, PromptTemplateNames) :
            calls[r][i].sent = calls[r][i].rendered


\* C11: a judge or target call that raised is the last call of its run: the
\* run is left in error with no TestResult, and stays so; a run is in error
\* only by a call that raised, never by a completion that lacks a field.
C11_FailureIsFatal ==
    /\ [](\A r \in runs :
            /\ \A i \in 1..Len(calls[r]) :
                 ~calls[r][i].ok =>
                    /\ i = Len(calls[r])
                    /\ local[r].pc = "error"
                    /\ test_result[r] = <<>>
            /\ local[r].pc = "error" =>
                 /\ calls[r] /= <<>>
                 /\ ~calls[r][Len(calls[r])].ok
                 /\ test_result[r] = <<>>)
    /\ [][\A r \in runs :
             local[r].pc = "error" =>
                /\ local[r]' = local[r]
                /\ calls[r]' = calls[r]
                /\ test_result[r]' = test_result[r]]_vars

\* the retry of a null generation raised, and the run was left
C11_Witness ==
    /\ local[1].pc = "error"
    /\ Len(calls[1]) = 2
    /\ calls[1][1].ok /\ calls[1][1].output = None
    /\ calls[1][2].kind = calls[1][1].kind /\ ~calls[1][2].ok


\* C12: turns is half the number of messages; the k-th pair is the user text
\* sent to the target in turn k and the reply the target gave to it; a step
\* leaves the messages alone or appends one pair to them, at the target call
\* of an iteration.
C12_ConversationAppendOnly ==
    /\ [](\A r \in runs :
            LET c == conversation[r]
            IN  /\ Len(c.messages) = 2 * c.turns
                /\ \A k \in 1..c.turns :
                     /\ c.messages[2 * k - 1][1] = "USER"
                     /\ c.messages[2 * k][1] = "AGENT"
                     /\ \E i \in CallsAt(r, {"target"}, k - 1) :
                          /\ calls[r][i].ok
                          /\ calls[r][i].sent.text
                               = <<c.messages[2 * k - 1][2]>>
                          /\ calls[r][i].output = c.messages[2 * k][2])
    /\ [][\A r \in runs :
             LET c == conversation[r]
             IN  \/ c' = c
                 \/ /\ local[r].pc = "add_turn"
                    /\ c.turns' = c.turns + 1
                    /\ Len(c.messages') = Len(c.messages) + 2
                    /\ SubSeq(c.messages', 1, Len(c.messages)) = c.messages
                    /\ c.turns' <= iterations[r]]_vars

\* two pairs, the first with the fixed initial prompt and the second with a
\* generated user text
C12_Witness ==
    /\ conversation[1].turns = 2
    /\ conversation[1].messages[1] = <<"USER", "Hi">>
    /\ conversation[1].messages[3] = <<"USER", "u">>
    /\ conversation[1].messages[4] = <<"AGENT", "OK">>


\* C13: the trace holds one step for every call that returned, in the order
\* of the calls, with the prompts the run rendered and the output extracted
\* (a null one too); a call that raised adds none; a step of the run leaves
\* the trace alone or appends one step to it, for one call.
C13_TraceMirrorsCalls ==
    /\ [](\A r \in runs :
            LET n == Len(trace[r])
            IN  /\ n = Cardinality({ i \in 1..Len(calls[r]) : calls[r][i].ok })
                /\ \A i \in 1..n :
                     /\ calls[r][i].ok
                     /\ trace[r][i].step = calls[r][i].kind
                     /\ IF calls[r][i].kind = "target"
                        THEN trace[r][i].output
                               \in { t.data : t \in TargetResponses }
                        ELSE /\ trace[r][i].output = calls[r][i].output
                             /\ trace[r][i].system_prompt
                                  = calls[r][i].rendered.system
                             /\ trace[r][i].prompt
                                  = calls[r][i].rendered.text)
    /\ [][\A r \in runs :
             \/ trace[r]' = trace[r]
             \/ /\ Len(trace[r]') = Len(trace[r]) + 1
                /\ SubSeq(trace[r]', 1, Len(trace[r])) = trace[r]
                /\ Len(calls[r]') = Len(calls[r]) + 1]_vars

\* five null generations, the target call and a status call: seven steps
C13_Witness ==
    /\ Len(trace[1]) = MaxRetries + 3
    /\ \A i \in 1..(MaxRetries + 1) :
         trace[1][i].step = "generate_initial_prompt"
           /\ trace[1][i].output = None
    /\ trace[1][MaxRetries + 2].step = "target"
    /\ trace[1][MaxRetries + 3].step = "generate_test_status"


\* C14: the reasoning of a TestResult is text, never null: the empty string
\* when no evaluation was made, else the reasoning extracted from the
\* evaluation completion.
C14_ReasoningIsText ==
    \A r \in runs :
        \A k \in 1..Len(test_result[r]) :
            LET E == CallsOf(r, {"generate_evaluation"})
            IN  /\ test_result[r][k].reasoning /= None
                /\ E = {} => test_result[r][k].reasoning = ""
                /\ \A i \in E :
                     test_result[r][k].reasoning = trace[r][i].reasoning


JudgeCallSteps == { "set_system", "set_text", "invoke" }

\* C16: once a test-status call has returned "all steps attempted", the only
\* call that follows is the evaluation call, the next one; the run is in that
\* call, returning, returned or left by it, and turns stays the number of the
\* turn of that status, also in the TestResult, even with turns to spare.
C16_EvaluationEndsRun ==
    \A r \in runs :
        \A i \in CallsOf(r, {"generate_test_status"}) :
            (calls[r][i].ok /\ calls[r][i].output = ALL_STEPS_ATTEMPTED) =>
                /\ i < Len(calls[r]) =>
                     /\ i + 1 = Len(calls[r])
                     /\ calls[r][i + 1].kind = "generate_evaluation"
                     /\ calls[r][i + 1].turn = calls[r][i].turn
                /\ local[r].pc \in JudgeCallSteps \cup {"return", "done", "error"}
                /\ local[r].pc \in JudgeCallSteps =>
                     local[r].call = "generate_evaluation"
                /\ i = Len(calls[r]) => local[r].pc \in JudgeCallSteps
                /\ conversation[r].turns = calls[r][i].turn
                /\ iterations[r] = calls[r][i].turn
                /\ \A k \in 1..Len(test_result[r]) :
                     test_result[r][k].conversation.turns = calls[r][i].turn

\* a Test of MaxTurns turns returned after its first turn
C16_Witness ==
    /\ Returned(1)
    /\ test[1].max_turns = MaxTurns
    /\ test_result[1][1].conversation.turns = 1
    /\ \E i \in CallsAt(1, {"generate_test_status"}, 1) :
         calls[1][i].output = ALL_STEPS_ATTEMPTED


\* C17: in every iteration the generation calls come before the one target
\* call, and the one test-status call comes right after it, the turn added;
\* every added turn has its status call, the turn that reaches max_turns too,
\* and a status "all steps attempted" on that turn is evaluated: the result
\* is not "Maximum turns reached.".
C17_IterationOrder ==
    \A r \in runs :
        LET S == CallsOf(r, {"generate_test_status"})
            asking == local[r].pc \in JudgeCallSteps
                        /\ local[r].call = "generate_test_status"
        IN  /\ \A t \in 0..MaxTurns :
                 LET G == CallsAt(r, GenerateNames, t)
                     T == CallsAt(r, {"target"}, t)
                 IN  /\ Cardinality(T) <= 1
                     /\ Cardinality(CallsAt(r, {"generate_test_status"}, t + 1))
                          <= 1
                     /\ \A g \in G : \A j \in T : g < j
                     /\ \A j \in T :
                          (calls[r][j].ok /\ j < Len(calls[r])) =>
                             /\ calls[r][j + 1].kind = "generate_test_status"
                             /\ calls[r][j + 1].turn = t + 1
            /\ \A s \in S :
                 /\ s > 1
                 /\ calls[r][s - 1].kind = "target"
                 /\ calls[r][s - 1].ok
                 /\ calls[r][s - 1].turn + 1 = calls[r][s].turn
            /\ Cardinality(S) =
                 IF asking THEN conversation[r].turns - 1
                 ELSE conversation[r].turns
            /\ \A k \in 1..Len(test_result[r]) :
                 (\E s \in S : /\ calls[r][s].turn = test[r].max_turns
                               /\ calls[r][s].output = ALL_STEPS_ATTEMPTED)
                 => test_result[r][k].result /= MAX_TURNS_REACHED

\* the status of the last permitted turn was "all steps attempted", and the
\* run was evaluated
C17_Witness ==
    /\ Returned(1)
    /\ test[1].max_turns = MaxTurns
    /\ \E s \in CallsAt(1, {"generate_test_status"}, MaxTurns) :
         calls[1][s].output = ALL_STEPS_ATTEMPTED
    /\ test_result[1][1].result = NOT_ALL_EXPECTED_RESULTS_OBSERVED


\* C18: generate_initial_prompt is called only while turns is 0 and only for
\* a Test without a fixed initial prompt, generate_user_response only while
\* turns is at least 1; the generation calls of a turn are calls of one
\* generator; every turn after the first has its user text generated.
C18_GeneratorByTurn ==
    \A r \in runs :
        /\ \A i \in CallsOf(r, {"generate_initial_prompt"}) :
             calls[r][i].turn = 0 /\ test[r].initial_prompt = None
        /\ \A i \in CallsOf(r, {"generate_user_response"}) :
             calls[r][i].turn >= 1
        /\ \A t \in 0..MaxTurns :
             \A i \in CallsAt(r, GenerateNames, t) :
                 \A j \in CallsAt(r, GenerateNames, t) :
                     calls[r][i].kind = calls[r][j].kind
        /\ \A j \in CallsOf(r, {"target"}) :
             calls[r][j].turn >= 1 =>
                CallsAt(r, {"generate_user_response"}, calls[r][j].turn) /= {}


\* C19: a TestResult is passed exactly when its result is the
\* ALL_EXPECTED_RESULTS_OBSERVED label; its result is one of the three
\* labels; it is not "Maximum turns reached." exactly when one evaluation
\* call was made, and then the last test status returned was "all steps
\* attempted".
C19_VerdictConsistent ==
    \A r \in runs :
        \A k \in 1..Len(test_result[r]) :
            LET tr == test_result[r][k]
                E == CallsOf(r, {"generate_evaluation"})
                S == CallsOf(r, {"generate_test_status"})
            IN  /\ tr.passed <=> tr.result = ALL_EXPECTED_RESULTS_OBSERVED
                /\ tr.result \in { MAX_TURNS_REACHED,
                                   ALL_EXPECTED_RESULTS_OBSERVED,
                                   NOT_ALL_EXPECTED_RESULTS_OBSERVED }
                /\ tr.result /= MAX_TURNS_REACHED <=> Cardinality(E) = 1
                /\ Cardinality(E) <= 1
                /\ Cardinality(E) = 1 =>
                     /\ S /= {}
                     /\ calls[r][Max(S)].output = ALL_STEPS_ATTEMPTED
                     /\ local[r].test_status = ALL_STEPS_ATTEMPTED

\* a run returned passed after the evaluation category "A", its second status
\* being the first "all steps attempted"
C19_Witness ==
    /\ Returned(1)
    /\ test_result[1][1].passed
    /\ test_result[1][1].conversation.turns = 2
    /\ \E i \in CallsOf(1, {"generate_evaluation"}) :
         calls[1][i].output = EVAL_ALL_EXPECTED_RESULTS_OBSERVED


\* the messages the last prompt of run r before call j was rendered from:
\* those of the start of the iteration of a target call j
MessagesBefore(r, j) ==
    IF j = 1 \/ calls[r][j].kind = "generate_initial_prompt" THEN <<>>
    ELSE IF calls[r][j].kind = "target"
    THEN calls[r][j - 1].rendered.text[3]
    ELSE calls[r][j].rendered.text[3]

\* C20: a step in which a call raises changes neither the conversation nor
\* the trace; after a target call that raised the conversation is the one of
\* the start of the iteration, without the user text chosen, and the trace
\* holds the steps of the calls before it, the generation calls of the
\* iteration among them; after a judge call that raised the conversation is
\* the one its prompt was rendered from; the conversation changes only by a
\* target call that returns.
C20_FailureLeavesConversation ==
    /\ [](\A r \in runs :
            \A j \in 1..Len(calls[r]) :
                ~calls[r][j].ok =>
                   /\ conversation[r].turns = calls[r][j].turn
                   /\ conversation[r].messages = MessagesBefore(r, j)
                   /\ Len(conversation[r].messages) = 2 * calls[r][j].turn
                   /\ Len(trace[r]) = j - 1
                   /\ \A g \in CallsAt(r, GenerateNames, calls[r][j].turn) :
                        g < j =>
                           /\ trace[r][g].step = calls[r][g].kind
                           /\ trace[r][g].output = calls[r][g].output)
    /\ [][\A r \in runs :
             /\ (local[r].pc /= "error" /\ local[r].pc' = "error") =>
                  /\ conversation[r]' = conversation[r]
                  /\ trace[r]' = trace[r]
             /\ conversation[r]' /= conversation[r] =>
                  /\ local[r].pc = "add_turn"
                  /\ calls[r]'[Len(calls[r]')].kind = "target"
                  /\ calls[r]'[Len(calls[r]')].ok]_vars

\* the target call of the second turn raised after two generation calls
C20_Witness ==
    /\ local[1].pc = "error"
    /\ conversation[1].turns = 1
    /\ Cardinality(CallsAt(1, {"generate_user_response"}, 1)) = 2
    /\ calls[1][Len(calls[1])].kind = "target"
    /\ ~calls[1][Len(calls[1])].ok
    /\ Len(trace[1]) = 4


\* C15: _extract_content_from_xml() returns on every completion text; its
\* tuple has one entry per requested name, in the order requested; the entry
\* of a name is the text between the first opening tag of that name and the
\* first closing tag of that name after it, newlines included and without
\* the whitespace at its two ends, and it is null when there is no such pair
\* of tags; a tag in another case is no tag of the name;
\* "<category>A</category>" gives "A", and a text without category tags null.
Between(x, i, j) == SubSeq(x, i + 1, j - 1)

IsTrimOf(s, out) ==
    LET solid == { k \in 1..Len(s) : s[k][1] /= "ws" }
    IN  IF solid = {} THEN out = ""
        ELSE \E a, b \in solid :
                /\ \A k \in solid : a <= k /\ k <= b
                /\ out = Join(SubSeq(s, a, b))

IsFieldOf(x, e, out) ==
    LET pairs == { p \in (1..Len(x)) \X (1..Len(x)) :
                     /\ x[p[1]] = Open(e)
                     /\ \A i \in 1..(p[1] - 1) : x[i] /= Open(e)
                     /\ p[1] < p[2]
                     /\ x[p[2]] = Close(e)
                     /\ \A j \in (p[1] + 1)..(p[2] - 1) : x[j] /= Close(e) }
    IN  IF pairs = {} THEN out = None
        ELSE \A p \in pairs : IsTrimOf(Between(x, p[1], p[2]), out)

C15_ExtractorContract ==
    /\ extract.pc = "call" => ENABLED ExtractContent
    /\ extract.pc = "returned" =>
         LET x == extract.xml_data
             names == extract.element_names
             out == extract.content
         IN  /\ Len(out) = Len(names)
             /\ \A k \in 1..Len(names) : IsFieldOf(x, names[k], out[k])
             /\ \A k \in 1..Len(names) :
                  names[k] = "category" =>
                     /\ x = <<Open("category"), Text("A"), Close("category")>>
                          => out[k] = "A"
                     /\ (\A i \in 1..Len(x) :
                            x[i] \notin {Open("category"), Close("category")})
                          => out[k] = None

\* a newline before the text of the category: the text is found across the
\* newline and trimmed, thinking has no tags and gives null, and the tuple
\* is in the order of the names
C15_Witness ==
    /\ extract.pc = "returned"
    /\ extract.xml_data =
         <<Open("category"), Nl, Text("A"), Close("category")>>
    /\ extract.element_names = <<"thinking", "category">>
    /\ extract.content = <<None, "A">>

====
